---- MODULE Spec2Model ----
(***************************************************************************)
(* simd-perf: the copy benchmark (simd-copy.cpp, kept as                   *)
(* src/unnamed/part_000) and the multiply benchmark (src/simd-mult.cpp).   *)
(*                                                                         *)
(* Memory is a flat byte-addressed space holding the two std::vector<float>*)
(* allocations.  align() works on byte addresses, so for a sweep offset    *)
(* that is not a multiple of 4 every float the executor touches straddles  *)
(* the floats the vector was filled with; floats are therefore modelled as *)
(* their four little-endian bytes, with IEEE-754 single comparison and     *)
(* multiplication computed on the bit patterns.                            *)
(***************************************************************************)
EXTENDS Integers, Sequences, FiniteSets, TLC

(***************************************************************************)
(* Bounds of the model.                                                    *)
(***************************************************************************)
\* largest num-floats drawn for a sweep
MaxNum == 2
\* largest ordinary total-floats drawn for a sweep
MaxTotal == 3
\* std::size_t is modelled modulo SizeMod (2^64 in the build)
SizeMod == 6
\* largest num-floats drawn for a single operation call
MaxOpNum == 9

(***************************************************************************)
(* Program constants.                                                      *)
(***************************************************************************)
AlignModulus == 256
DestSlack == 256
CopySourceSlack == 256
MultSourceSlack == 4096
SecondOperand == 256
FirstAlignment == 4
LastAlignment == 64
SseBytes == 16
AvxBytes == 32
FloatBytes == 4

(***************************************************************************)
(* IEEE-754 single precision on little-endian byte quadruples.             *)
(***************************************************************************)
Sign(x) == x[4] \div 128
Expo(x) == (x[4] % 128) * 2 + (x[3] \div 128)
Mant(x) == (x[3] % 128) * 65536 + x[2] * 256 + x[1]

Encode(s, e, m) ==
    << m % 256, (m \div 256) % 256, (e % 2) * 128 + (m \div 65536), s * 128 + e \div 2 >>

IsNaN(x) == Expo(x) = 255 /\ Mant(x) # 0
IsInf(x) == Expo(x) = 255 /\ Mant(x) = 0
IsZero(x) == Expo(x) = 0 /\ Mant(x) = 0

\* operator != on float: unordered (NaN) operands compare unequal, +0 = -0
FloatNe(x, y) ==
    \/ IsNaN(x)
    \/ IsNaN(y)
    \/ (x # y /\ ~(IsZero(x) /\ IsZero(y)))

Zero == << 0, 0, 0, 0 >>

\* F(e), with e evaluated once
With(e, F(_)) == CHOOSE r \in { F(v) : v \in { e } } : TRUE

RECURSIVE BitLen(_)
BitLen(v) == IF v = 0 THEN 0 ELSE 1 + BitLen(v \div 2)

\* significand with the implicit bit, and the exponent it is scaled by
Sig(x) == IF Expo(x) = 0 THEN Mant(x) ELSE Mant(x) + 8388608
Scale(x) == IF Expo(x) = 0 THEN 1 ELSE Expo(x)

\* The 48-bit product of two 24-bit significands as << high 24 bits, low 24 bits >>
WideProduct(mx, my) ==
    LET x1 == mx \div 4096
        x0 == mx % 4096
        y1 == my \div 4096
        y0 == my % 4096
        cross == x1 * y0 + x0 * y1
        low == (cross % 4096) * 4096 + x0 * y0
    IN  << x1 * y1 + cross \div 4096 + low \div 16777216, low % 16777216 >>

\* << quotient, round bit, sticky >> of a 48-bit value shifted right by sh >= 1
ShiftRight(hi, lo, sh) ==
    IF sh <= 24
    THEN << hi * 2^(24 - sh) + lo \div 2^sh,
            (lo % 2^sh) \div 2^(sh - 1),
            IF (lo % 2^(sh - 1)) # 0 THEN 1 ELSE 0 >>
    ELSE IF sh <= 48
    THEN << hi \div 2^(sh - 24),
            (hi % 2^(sh - 24)) \div 2^(sh - 25),
            IF (hi % 2^(sh - 25)) # 0 \/ lo # 0 THEN 1 ELSE 0 >>
    ELSE << 0, 0, IF hi # 0 \/ lo # 0 THEN 1 ELSE 0 >>

\* round to nearest, ties to even
RoundShift(hi, lo, sh) ==
    IF sh <= 0
    THEN lo * 2^(0 - sh)
    ELSE With(ShiftRight(hi, lo, sh), LAMBDA t :
              IF t[2] = 1 /\ (t[3] = 1 \/ t[1] % 2 = 1) THEN t[1] + 1 ELSE t[1])

\* a quiet NaN keeps the operand's payload, the quiet bit set
Quiet(x) == Encode(Sign(x), 255, (Mant(x) % 4194304) + 4194304)

\* the default NaN x86 produces for inf * 0
Indefinite == Encode(1, 255, 4194304)

\* the product of two finite non-zero operands: sign s, scales summing to e,
\* 48-bit product of the significands p
Finite(s, e, p) ==
    With(IF p[1] > 0 THEN 24 + BitLen(p[1]) ELSE BitLen(p[2]), LAMBDA len :
    With(e - 150 + (len - 24), LAMBDA e0 :
    With(RoundShift(p[1], p[2], (len - 24) + (IF e0 < 1 THEN 1 - e0 ELSE 0)), LAMBDA r :
    With(IF r = 16777216 THEN << (IF e0 < 1 THEN 1 ELSE e0) + 1, 8388608 >>
                         ELSE << (IF e0 < 1 THEN 1 ELSE e0), r >>, LAMBDA n :
         IF n[1] >= 255 THEN Encode(s, 255, 0)
         ELSE IF n[2] < 8388608 THEN Encode(s, 0, n[2])
         ELSE Encode(s, n[1], n[2] - 8388608)))))

Product(x, y) ==
    LET s == (Sign(x) + Sign(y)) % 2
    IN  IF IsNaN(x) THEN Quiet(x)
        ELSE IF IsNaN(y) THEN Quiet(y)
        ELSE IF (IsInf(x) /\ IsZero(y)) \/ (IsZero(x) /\ IsInf(y)) THEN Indefinite
        ELSE IF IsInf(x) \/ IsInf(y) THEN Encode(s, 255, 0)
        ELSE IF IsZero(x) \/ IsZero(y) THEN Encode(s, 0, 0)
        ELSE With(WideProduct(Sig(x), Sig(y)), LAMBDA p : Finite(s, Scale(x) + Scale(y), p))

\* operator * on float (mulss / mulps)
FloatMul(x, y) == With(x, LAMBDA u : With(y, LAMBDA v : Product(u, v)))

(***************************************************************************)
(* State.                                                                  *)
(***************************************************************************)
VARIABLES
    prog,           \* "copy" (simd-copy.cpp) or "mult" (simd-mult.cpp)
    gNumFloats, gTotalFloats, gCheckValue, gHasAvx,
    destData,       \* dest.data(), 0 before the vector is constructed
    sourceData,     \* source.data(), 0 before the vector is constructed
    mem,            \* the bytes written since construction: address -> byte
    pc,             \* position in main / Run / the harness of one function
    alignment,      \* main's loop variable
    col,            \* the Run call of the row main is at (1-based)
    d, a, b,        \* Run's pointers after align (copy: a is s, b is unused)
    i,              \* Run's repetition counter (std::size_t)
    calls,          \* invocations of f by the current Run, counted modulo SizeMod + 1
    markup,         \* the chart markup written to cout: "none", "open", "closed"
    header,         \* the names of the header row written to cout
    rows,           \* the row labels written to cout
    row,            \* the columns of the current row written to cout, by name
    emitted,        \* what the Run call in progress, or just returned, wrote to cout
    diag,           \* the last message written to cerr
    exitCode,       \* the process's exit code, -1 while it runs
    acc,            \* the address ranges the last step read or wrote
    p, aligned_to, address,   \* harness of align: its parameters and its local
    op, memOnce     \* harness of one operation: the function, mem after one call

mainVars == << prog, gNumFloats, gTotalFloats, gCheckValue, gHasAvx, destData,
               sourceData, mem, pc, alignment, col, d, a, b, i, calls, markup,
               header, rows, row, emitted, diag, exitCode, acc >>
harness == << p, aligned_to, address, op, memOnce >>
vars == << mainVars, harness >>

(***************************************************************************)
(* align                                                                   *)
(***************************************************************************)
\* faulty variant (sensitivity test): the residue is compared one address too early
AlignLoopCondOff(addr, to) == (addr + 1) % AlignModulus # to

AlignLoopCond(addr, to) == addr % AlignModulus # to

\* while(address % 256 != aligned_to) ++address: the first address from addr on
\* at which the loop's condition is false (AlignSpec runs the loop step by step
\* and compares; the search stops where a residue would repeat)
Align(addr, to) ==
    LET stop == { x \in addr..(addr + AlignModulus - 1) : ~AlignLoopCond(x, to) }
    IN  CHOOSE x \in stop : \A y \in stop : x <= y

(***************************************************************************)
(* The two vectors and the memory they own.                                *)
(***************************************************************************)
SourceSlack == IF prog = "copy" THEN CopySourceSlack ELSE MultSourceSlack
SourceBytes == FloatBytes * (gNumFloats + SourceSlack)
\* faulty variant (sensitivity test): dest is constructed without its slack
DestBytesNoSlack == FloatBytes * gNumFloats

DestBytes == FloatBytes * (gNumFloats + DestSlack)

InSource(x) == sourceData # 0 /\ x >= sourceData /\ x < sourceData + SourceBytes

\* std::vector<float> v(n, x): every float of the allocation is x
ConstructedByte(x) ==
    IF InSource(x) THEN gCheckValue[((x - sourceData) % FloatBytes) + 1] ELSE 0

Load(m, x) == IF x \in DOMAIN m THEN m[x] ELSE ConstructedByte(x)

LoadBytes(m, x, len) == [ k \in 0..(len - 1) |-> Load(m, x + k) ]

\* the bytes written replace what was there (f @@ g takes f where both are defined)
StoreBytes(m, x, len, bytes) == [ y \in x..(x + len - 1) |-> bytes[y - x] ] @@ m

LoadFloat(m, x) == << Load(m, x), Load(m, x + 1), Load(m, x + 2), Load(m, x + 3) >>

StoreFloat(m, x, v) == StoreBytes(m, x, FloatBytes, [ k \in 0..3 |-> v[k + 1] ])

\* What a piece of code did: the memory it leaves and the ranges it touched,
\* each range named by the pointer parameter it was reached through.
Touch(ptr, lo, len) == [ ptr |-> ptr, lo |-> lo, hi |-> lo + len ]

Machine(m) == [ mem |-> m, acc |-> {} ]

\* std::fill(d, d + gNumFloats, 0.f)
RECURSIVE Fill(_, _, _, _)
Fill(M, dst, n, k) ==
    IF k < n
    THEN Fill([ M EXCEPT !.mem = StoreFloat(@, dst + FloatBytes * k, Zero),
                         !.acc = @ \cup { Touch("d", dst + FloatBytes * k, FloatBytes) } ],
              dst, n, k + 1)
    ELSE M

(***************************************************************************)
(* The operations.  Each loop is the source's: k runs from 0 in steps of   *)
(* the vector width while k < gNumFloats (an int compared with a           *)
(* std::size_t; the model's gNumFloats is far below INT_MAX).              *)
(***************************************************************************)
\* one load and one store of w floats at element k
CopyStep(M, dst, src, k, w) ==
    [ M EXCEPT !.mem = StoreBytes(@, dst + FloatBytes * k, FloatBytes * w,
                                  LoadBytes(@, src + FloatBytes * k, FloatBytes * w)),
               !.acc = @ \cup { Touch("a", src + FloatBytes * k, FloatBytes * w),
                                Touch("d", dst + FloatBytes * k, FloatBytes * w) } ]

\* faulty variant (sensitivity test): the loop's bound is inclusive
RECURSIVE CopyLoopInclusive(_, _, _, _, _, _)
CopyLoopInclusive(M, dst, src, n, w, k) ==
    IF k <= n
    THEN CopyLoopInclusive(CopyStep(M, dst, src, k, w), dst, src, n, w, k + w)
    ELSE M

RECURSIVE CopyLoop(_, _, _, _, _, _)
CopyLoop(M, dst, src, n, w, k) ==
    IF k < n THEN CopyLoop(CopyStep(M, dst, src, k, w), dst, src, n, w, k + w) ELSE M

\* std::memcpy(d, s, gNumFloats * sizeof(float))
MemCopy(M, dst, src, n) ==
    IF n = 0 THEN M
    ELSE [ M EXCEPT !.mem = StoreBytes(@, dst, n * FloatBytes,
                                       LoadBytes(@, src, n * FloatBytes)),
                    !.acc = @ \cup { Touch("a", src, n * FloatBytes),
                                     Touch("d", dst, n * FloatBytes) } ]

StdCopy(M, dst, src, n) == CopyLoop(M, dst, src, n, 1, 0)
SimpleCopy(M, dst, src, n) == CopyLoop(M, dst, src, n, 1, 0)
UnalignedSseCopy(M, dst, src, n) == CopyLoop(M, dst, src, n, 4, 0)
AlignedSseCopy(M, dst, src, n) == CopyLoop(M, dst, src, n, 4, 0)
AlignedSseNonTemporalCopy(M, dst, src, n) == CopyLoop(M, dst, src, n, 4, 0)
UnalignedAvxCopy(M, dst, src, n) == CopyLoop(M, dst, src, n, 8, 0)
AlignedAvxCopy(M, dst, src, n) == CopyLoop(M, dst, src, n, 8, 0)
AlignedAvxNonTemporalCopy(M, dst, src, n) == CopyLoop(M, dst, src, n, 8, 0)
NullCopy(M, dst, src, n) == M

\* the w products of the floats in the byte vectors x and y, as bytes
Products(x, y, w) ==
    LET r == [ j \in 0..(w - 1) |->
                 FloatMul(<< x[4 * j], x[4 * j + 1], x[4 * j + 2], x[4 * j + 3] >>,
                          << y[4 * j], y[4 * j + 1], y[4 * j + 2], y[4 * j + 3] >>) ]
    IN  [ q \in 0..(FloatBytes * w - 1) |-> r[q \div 4][(q % 4) + 1] ]

\* one step of w floats at element k: both vectors are loaded before the store
MultStep(M, dst, s1, s2, k, w) ==
    [ M EXCEPT !.mem = StoreBytes(@, dst + FloatBytes * k, FloatBytes * w,
                           Products(LoadBytes(@, s1 + FloatBytes * k, FloatBytes * w),
                                    LoadBytes(@, s2 + FloatBytes * k, FloatBytes * w), w)),
               !.acc = @ \cup { Touch("a", s1 + FloatBytes * k, FloatBytes * w),
                                Touch("b", s2 + FloatBytes * k, FloatBytes * w),
                                Touch("d", dst + FloatBytes * k, FloatBytes * w) } ]

RECURSIVE MultLoop(_, _, _, _, _, _, _)
MultLoop(M, dst, s1, s2, n, w, k) ==
    IF k < n
    THEN MultLoop(MultStep(M, dst, s1, s2, k, w), dst, s1, s2, n, w, k + w)
    ELSE M

NiaveMult(M, dst, s1, s2, n) == MultLoop(M, dst, s1, s2, n, 1, 0)
UnalignedSseMult(M, dst, s1, s2, n) == MultLoop(M, dst, s1, s2, n, 4, 0)
AlignedSseMult(M, dst, s1, s2, n) == MultLoop(M, dst, s1, s2, n, 4, 0)
AlignedSseNonTemporalMult(M, dst, s1, s2, n) == MultLoop(M, dst, s1, s2, n, 4, 0)
UnalignedAvxMult(M, dst, s1, s2, n) == MultLoop(M, dst, s1, s2, n, 8, 0)
AlignedAvxMult(M, dst, s1, s2, n) == MultLoop(M, dst, s1, s2, n, 8, 0)
AlignedAvxNonTemporalMult(M, dst, s1, s2, n) == MultLoop(M, dst, s1, s2, n, 8, 0)

\* the template argument f of Run, called as f(d, s) or f(d, a, b)
Call(f, M, dst, s1, s2, n) ==
    CASE f = "MemCopy" -> MemCopy(M, dst, s1, n)
      [] f = "StdCopy" -> StdCopy(M, dst, s1, n)
      [] f = "SimpleCopy" -> SimpleCopy(M, dst, s1, n)
      [] f = "UnalignedSseCopy" -> UnalignedSseCopy(M, dst, s1, n)
      [] f = "AlignedSseCopy" -> AlignedSseCopy(M, dst, s1, n)
      [] f = "AlignedSseNonTemporalCopy" -> AlignedSseNonTemporalCopy(M, dst, s1, n)
      [] f = "UnalignedAvxCopy" -> UnalignedAvxCopy(M, dst, s1, n)
      [] f = "AlignedAvxCopy" -> AlignedAvxCopy(M, dst, s1, n)
      [] f = "AlignedAvxNonTemporalCopy" -> AlignedAvxNonTemporalCopy(M, dst, s1, n)
      [] f = "NullCopy" -> NullCopy(M, dst, s1, n)
      [] f = "NiaveMult" -> NiaveMult(M, dst, s1, s2, n)
      [] f = "UnalignedSseMult" -> UnalignedSseMult(M, dst, s1, s2, n)
      [] f = "AlignedSseMult" -> AlignedSseMult(M, dst, s1, s2, n)
      [] f = "AlignedSseNonTemporalMult" -> AlignedSseNonTemporalMult(M, dst, s1, s2, n)
      [] f = "UnalignedAvxMult" -> UnalignedAvxMult(M, dst, s1, s2, n)
      [] f = "AlignedAvxMult" -> AlignedAvxMult(M, dst, s1, s2, n)
      [] f = "AlignedAvxNonTemporalMult" -> AlignedAvxNonTemporalMult(M, dst, s1, s2, n)

(***************************************************************************)
(* Run's verification loop and main's row of Run calls.                    *)
(***************************************************************************)
\* the right-hand side of Run's comparison at element k
Expected(m, s1, s2, k) ==
    IF prog = "copy"
    THEN LoadFloat(m, s1 + FloatBytes * k)
    ELSE FloatMul(LoadFloat(m, s1 + FloatBytes * k), LoadFloat(m, s2 + FloatBytes * k))

\* faulty variant (sensitivity test): the scan passes over element 0
RECURSIVE FirstMismatchSkip(_, _, _, _, _, _)
FirstMismatchSkip(m, dst, s1, s2, n, k) ==
    IF k < n
    THEN IF k > 0 /\ FloatNe(LoadFloat(m, dst + FloatBytes * k), Expected(m, s1, s2, k))
         THEN k
         ELSE FirstMismatchSkip(m, dst, s1, s2, n, k + 1)
    ELSE n

\* the first k < n at which Run's comparison is true, n when there is none
RECURSIVE FirstMismatch(_, _, _, _, _, _)
FirstMismatch(m, dst, s1, s2, n, k) ==
    IF k < n
    THEN IF FloatNe(LoadFloat(m, dst + FloatBytes * k), Expected(m, s1, s2, k))
         THEN k
         ELSE FirstMismatch(m, dst, s1, s2, n, k + 1)
    ELSE n

\* Timer::Elapsed / cgutil::timer::elapsed: 0 when below the clock's resolution
Elapsed == { 0, 1 }

\* faulty variant (sensitivity test): two names of the header row change places
HeaderNamesSwapped ==
    IF prog = "copy"
    THEN << "Alignment", "std::memcpy", "std::copy", "for-loop", "Unaligned Sse",
            "Unaligned Avx", "Aligned Sse Stream", "Aligned Sse", "Aligned Avx",
            "Aligned Avx Stream" >>
    ELSE << "Alignment", "for-loop", "Unaligned Sse", "Unaligned Avx",
            "Aligned Sse Stream", "Aligned Sse", "Aligned Avx", "Aligned Avx Stream" >>

\* the header row main writes
HeaderNames ==
    IF prog = "copy"
    THEN << "Alignment", "std::memcpy", "std::copy", "for-loop", "Unaligned Sse",
            "Unaligned Avx", "Aligned Sse", "Aligned Sse Stream", "Aligned Avx",
            "Aligned Avx Stream" >>
    ELSE << "Alignment", "for-loop", "Unaligned Sse", "Unaligned Avx", "Aligned Sse",
            "Aligned Sse Stream", "Aligned Avx", "Aligned Avx Stream" >>

RunOf(f, name, buf) == [ f |-> f, name |-> name, dbuf |-> buf ]

\* the Run calls of one iteration of main's loop, in order: the template
\* argument, the name and the vector whose data() is passed as d
CopyRuns(k, avx) ==
    << RunOf("MemCopy", "std::memcpy", "dest"),
       RunOf("StdCopy", "std::copy", "dest"),
       RunOf("SimpleCopy", "for-loop", "dest"),
       RunOf("UnalignedSseCopy", "Unaligned Sse", "dest"),
       IF avx THEN RunOf("UnalignedAvxCopy", "Unaligned Avx", "dest")
              ELSE RunOf("NullCopy", "Unaligned Avx", "source"),
       IF k % SseBytes = 0 THEN RunOf("AlignedSseCopy", "Aligned Sse", "dest")
                           ELSE RunOf("NullCopy", "Aligned Sse", "source"),
       IF k % SseBytes = 0
           THEN RunOf("AlignedSseNonTemporalCopy", "Aligned Sse Stream", "dest")
           ELSE RunOf("NullCopy", "Aligned Sse Stream", "source"),
       IF k % AvxBytes = 0 /\ avx THEN RunOf("AlignedAvxCopy", "Aligned Avx", "dest")
                                  ELSE RunOf("NullCopy", "Aligned Avx", "source"),
       IF k % AvxBytes = 0 /\ avx
           THEN RunOf("AlignedAvxNonTemporalCopy", "Aligned Avx Stream", "dest")
           ELSE RunOf("NullCopy", "Aligned Avx Stream", "source") >>

MultRuns(k, avx) ==
    << RunOf("NiaveMult", "for-loop", "dest"),
       RunOf("UnalignedSseMult", "Unaligned Sse", "dest"),
       IF avx THEN RunOf("UnalignedAvxMult", "Unaligned Avx", "dest")
              ELSE RunOf("NullMult", "Unaligned Avx", "source"),
       IF k % SseBytes = 0 THEN RunOf("AlignedSseMult", "Aligned Sse", "dest")
                           ELSE RunOf("NullMult", "Aligned Sse", "source"),
       IF k % SseBytes = 0
           THEN RunOf("AlignedSseNonTemporalMult", "Aligned Sse Stream", "dest")
           ELSE RunOf("NullMult", "Aligned Sse Stream", "source"),
       IF k % AvxBytes = 0 /\ avx THEN RunOf("AlignedAvxMult", "Aligned Avx", "dest")
                                  ELSE RunOf("NullMult", "Aligned Avx", "source"),
       IF k % AvxBytes = 0 /\ avx
           THEN RunOf("AlignedAvxNonTemporalMult", "Aligned Avx Stream", "dest")
           ELSE RunOf("NullMult", "Aligned Avx Stream", "source") >>

Runs == IF prog = "copy" THEN CopyRuns(alignment, gHasAvx) ELSE MultRuns(alignment, gHasAvx)

\* the Run call main is at
Cur == Runs[col]

\* the data() pointer main passes as d
DData == IF Cur.dbuf = "dest" THEN destData ELSE sourceData

(***************************************************************************)
(* The inputs.                                                             *)
(***************************************************************************)
\* check-value: 1.0f (the default) and -1.0000151f, 0xBF80007F, whose bytes
\* read one byte further on are the NaN 0x7FBF8000
One == << 0, 0, 128, 63 >>
CheckValues == { One, << 127, 0, 128, 191 >> }

\* total-floats: the ordinary values and the largest std::size_t
Totals == (0..MaxTotal) \cup { SizeMod - 1 }

\* where the allocator puts << dest, source >>: operator new aligns to 16
Layouts == { << 4096, 8208 >>, << 4112, 8192 >> }

NoValue == [ alignment |-> 0, name |-> "", f |-> "", val |-> 0, verified |-> FALSE ]

HarnessIdle ==
    /\ p = 0
    /\ aligned_to = 0
    /\ address = 0
    /\ op = ""
    /\ memOnce = << >>

\* main after the options are parsed
Init ==
    /\ prog \in { "copy", "mult" }
    /\ gNumFloats \in 0..MaxNum
    /\ gTotalFloats \in Totals
    /\ gCheckValue \in CheckValues
    /\ gHasAvx \in BOOLEAN
    /\ destData = 0
    /\ sourceData = 0
    /\ mem = << >>
    /\ pc = "main"
    /\ alignment = 0
    /\ col = 0
    /\ d = 0
    /\ a = 0
    /\ b = 0
    /\ i = 0
    /\ calls = 0
    /\ markup = "none"
    /\ header = << >>
    /\ rows = << >>
    /\ row = << >>
    /\ emitted = NoValue
    /\ diag = << "none" >>
    /\ exitCode = -1
    /\ acc = [ dbuf |-> "dest", ranges |-> {} ]
    /\ HarnessIdle

(***************************************************************************)
(* main                                                                    *)
(***************************************************************************)
\* if(gTotalFloats < gNumFloats) { cerr << ...; print_usage(); return 0; }
ConfigError ==
    /\ pc = "main"
    /\ gTotalFloats < gNumFloats
    /\ diag' = << "total-floats must be greater than num-floats", "Usage:" >>
    /\ exitCode' = 0
    /\ pc' = "exit"
    /\ UNCHANGED << harness, prog, gNumFloats, gTotalFloats, gCheckValue, gHasAvx, destData,
                    sourceData, mem, alignment, col, d, a, b, i, calls, markup,
                    header, rows, row, emitted, acc >>

\* the markup's opening (gHtmlOut is never changed from true), the two
\* vectors, the header row, and the loop's initialisation
Setup ==
    /\ pc = "main"
    /\ ~(gTotalFloats < gNumFloats)
    /\ markup' = "open"
    /\ \E l \in Layouts : destData' = l[1] /\ sourceData' = l[2]
    /\ header' = HeaderNames
    /\ alignment' = FirstAlignment
    /\ pc' = "row"
    /\ UNCHANGED << harness, prog, gNumFloats, gTotalFloats, gCheckValue, gHasAvx, mem, col,
                    d, a, b, i, calls, rows, row, emitted, diag, exitCode, acc >>

\* alignment <= 64: cout << "],\n" << "[" << alignment
RowBegin ==
    /\ pc = "row"
    /\ alignment <= LastAlignment
    /\ rows' = Append(rows, alignment)
    /\ row' = << >>
    /\ col' = 1
    /\ pc' = "col"
    /\ UNCHANGED << harness, prog, gNumFloats, gTotalFloats, gCheckValue, gHasAvx, destData,
                    sourceData, mem, alignment, d, a, b, i, calls, markup, header,
                    emitted, diag, exitCode, acc >>

\* the loop is over: the closing bracket, the markup's end, return 0
Finish ==
    /\ pc = "row"
    /\ ~(alignment <= LastAlignment)
    /\ markup' = "closed"
    /\ exitCode' = 0
    /\ pc' = "exit"
    /\ UNCHANGED << harness, prog, gNumFloats, gTotalFloats, gCheckValue, gHasAvx, destData,
                    sourceData, mem, alignment, col, d, a, b, i, calls, header, rows,
                    row, emitted, diag, acc >>

\* main after a Run call returns: the next call of the row, or the next row
Return ==
    IF col < Len(Runs)
    THEN col' = col + 1 /\ pc' = "col" /\ alignment' = alignment
    ELSE col' = col /\ pc' = "row" /\ alignment' = alignment + 1

(***************************************************************************)
(* Run                                                                     *)
(***************************************************************************)
\* the specialization Run<NullMult> of simd-mult.cpp; simd-copy.cpp has none
Specialized == Cur.f = "NullMult"

\* template<> void Run<NullMult>(...) { std::cout << "," << 0; }
RunNull ==
    /\ pc = "col"
    /\ Specialized
    /\ row' = Append(row, Cur.name)
    /\ emitted' = [ alignment |-> alignment, name |-> Cur.name, f |-> Cur.f,
                    val |-> 0, verified |-> FALSE ]
    /\ Return
    /\ UNCHANGED << harness, prog, gNumFloats, gTotalFloats, gCheckValue, gHasAvx, destData,
                    sourceData, mem, d, a, b, i, calls, markup, header, rows, diag,
                    exitCode, acc >>

\* the generic Run up to its timed loop: align, std::fill, Timer t, i = 0
RunStart ==
    /\ pc = "col"
    /\ ~Specialized
    /\ LET dst == Align(DData, alignment)
           M == Fill(Machine(mem), dst, gNumFloats, 0)
       IN  /\ d' = dst
           /\ a' = Align(sourceData, alignment)
           /\ b' = IF prog = "copy" THEN 0
                   ELSE Align(sourceData + FloatBytes * SecondOperand, alignment)
           /\ mem' = M.mem
           /\ acc' = [ dbuf |-> Cur.dbuf, ranges |-> M.acc ]
    /\ i' = 0
    /\ calls' = 0
    /\ emitted' = NoValue
    /\ pc' = "loop"
    /\ UNCHANGED << harness, prog, gNumFloats, gTotalFloats, gCheckValue, gHasAvx, destData,
                    sourceData, alignment, col, markup, header, rows, row, diag,
                    exitCode >>

\* faulty variant (sensitivity test): the loop's bound is inclusive
LoopCondInclusive(k) == k <= gTotalFloats

\* the condition of for(std::size_t i = 0; i < gTotalFloats; i += gNumFloats)
LoopCond(k) == k < gTotalFloats

\* one iteration of that loop: f(d, s) or f(d, a, b), then i += gNumFloats
RunInvoke ==
    /\ pc = "loop"
    /\ LoopCond(i)
    /\ LET M == Call(Cur.f, Machine(mem), d, a, b, gNumFloats)
       IN  /\ mem' = M.mem
           /\ acc' = [ dbuf |-> Cur.dbuf, ranges |-> M.acc ]
    /\ i' = (i + gNumFloats) % SizeMod
    /\ calls' = (calls + 1) % (SizeMod + 1)
    /\ UNCHANGED << harness, prog, gNumFloats, gTotalFloats, gCheckValue, gHasAvx, destData,
                    sourceData, pc, alignment, col, d, a, b, markup, header, rows,
                    row, emitted, diag, exitCode >>

\* the ranges the verification loop reads when it stops at element k (k = n: at the end)
Scanned(k, n) ==
    LET cnt == IF k < n THEN k + 1 ELSE n
    IN  IF cnt = 0 THEN {}
        ELSE { Touch("d", d, FloatBytes * cnt), Touch("a", a, FloatBytes * cnt) }
             \cup (IF prog = "copy" THEN {} ELSE { Touch("b", b, FloatBytes * cnt) })

\* the loop is over and the verification finds a difference:
\* cerr << "Error in " << name ...; std::exit(1)
VerifyFail ==
    /\ pc = "loop"
    /\ ~LoopCond(i)
    /\ LET k == FirstMismatch(mem, d, a, b, gNumFloats, 0)
       IN  /\ k < gNumFloats
           /\ diag' = << "Error in", Cur.name, LoadFloat(mem, d + FloatBytes * k),
                         Expected(mem, a, b, k) >>
           /\ acc' = [ dbuf |-> Cur.dbuf, ranges |-> Scanned(k, gNumFloats) ]
    /\ exitCode' = 1
    /\ pc' = "exit"
    /\ UNCHANGED << harness, prog, gNumFloats, gTotalFloats, gCheckValue, gHasAvx, destData,
                    sourceData, mem, alignment, col, d, a, b, i, calls, markup,
                    header, rows, row, emitted >>

\* the loop is over and the verification finds none:
\* cerr << name << ... << " took " << time; std::cout << "," << time
VerifyPass ==
    /\ pc = "loop"
    /\ ~LoopCond(i)
    /\ FirstMismatch(mem, d, a, b, gNumFloats, 0) = gNumFloats
    /\ \E time \in Elapsed :
         /\ diag' = << "took", Cur.name, alignment >>
         /\ emitted' = [ alignment |-> alignment, name |-> Cur.name, f |-> Cur.f,
                         val |-> time, verified |-> TRUE ]
    /\ row' = Append(row, Cur.name)
    /\ acc' = [ dbuf |-> Cur.dbuf, ranges |-> Scanned(gNumFloats, gNumFloats) ]
    /\ Return
    /\ UNCHANGED << harness, prog, gNumFloats, gTotalFloats, gCheckValue, gHasAvx, destData,
                    sourceData, mem, d, a, b, i, calls, markup, header, rows,
                    exitCode >>

\* Dereferencing a float* that is not a multiple of 4 is undefined, and Run's
\* first such access is std::fill's: a build whose vectorised loops assume
\* element alignment stops the process with a signal there instead of
\* writing the bytes.
Fault ==
    /\ pc = "col"
    /\ ~Specialized
    /\ gNumFloats > 0
    /\ alignment % FloatBytes # 0
    /\ pc' = "fault"
    /\ UNCHANGED << harness, prog, gNumFloats, gTotalFloats, gCheckValue, gHasAvx, destData,
                    sourceData, mem, alignment, col, d, a, b, i, calls, markup,
                    header, rows, row, emitted, diag, exitCode, acc >>

Next ==
    \/ ConfigError
    \/ Setup
    \/ RowBegin
    \/ Finish
    \/ RunNull
    \/ RunStart
    \/ RunInvoke
    \/ VerifyFail
    \/ VerifyPass
    \/ Fault

Spec == Init /\ [][Next]_vars

\* the process runs on a thread of its own: a step that can be taken is taken
FairSpec == Spec /\ WF_vars(Next)

(***************************************************************************)
(* align on its own: the loop of align, one step per iteration, from every *)
(* target offset and from pointers of each residue class main passes.      *)
(***************************************************************************)
AlignPointers == { 4096, 4112, 4097 }

AlignInit ==
    /\ p \in AlignPointers
    /\ aligned_to \in 0..(AlignModulus - 1)
    /\ address = p
    /\ pc = "align"
    /\ prog = "copy"
    /\ gNumFloats = 0
    /\ gTotalFloats = 0
    /\ gCheckValue = One
    /\ gHasAvx = TRUE
    /\ destData = 0
    /\ sourceData = 0
    /\ mem = << >>
    /\ alignment = 0
    /\ col = 0
    /\ d = 0
    /\ a = 0
    /\ b = 0
    /\ i = 0
    /\ calls = 0
    /\ markup = "none"
    /\ header = << >>
    /\ rows = << >>
    /\ row = << >>
    /\ emitted = NoValue
    /\ diag = << "none" >>
    /\ exitCode = -1
    /\ acc = [ dbuf |-> "dest", ranges |-> {} ]
    /\ op = ""
    /\ memOnce = << >>

\* while(address % 256 != aligned_to) ++address;
AlignStep ==
    /\ pc = "align"
    /\ AlignLoopCond(address, aligned_to)
    /\ address' = address + 1
    /\ UNCHANGED << mainVars, p, aligned_to, op, memOnce >>

\* return reinterpret_cast<T*>(address);
AlignReturn ==
    /\ pc = "align"
    /\ ~AlignLoopCond(address, aligned_to)
    /\ pc' = "aligned"
    /\ UNCHANGED << prog, gNumFloats, gTotalFloats, gCheckValue, gHasAvx, destData,
                    sourceData, mem, alignment, col, d, a, b, i, calls, markup,
                    header, rows, row, emitted, diag, exitCode, acc, harness >>

AlignNext == AlignStep \/ AlignReturn

AlignSpec == AlignInit /\ [][AlignNext]_vars

(***************************************************************************)
(* One operation on its own: f called twice on pointers aligned as Run     *)
(* aligns them, at offsets every variant accepts, over freshly constructed *)
(* vectors.                                                                *)
(***************************************************************************)
CopyOperations ==
    { "MemCopy", "StdCopy", "SimpleCopy", "UnalignedSseCopy", "AlignedSseCopy",
      "AlignedSseNonTemporalCopy", "UnalignedAvxCopy", "AlignedAvxCopy",
      "AlignedAvxNonTemporalCopy" }

MultOperations ==
    { "NiaveMult", "UnalignedSseMult", "AlignedSseMult", "AlignedSseNonTemporalMult",
      "UnalignedAvxMult", "AlignedAvxMult", "AlignedAvxNonTemporalMult" }

OpInit ==
    /\ prog \in { "copy", "mult" }
    /\ op \in (IF prog = "copy" THEN CopyOperations ELSE MultOperations)
    /\ gNumFloats \in 1..MaxOpNum
    /\ gTotalFloats = gNumFloats
    /\ gCheckValue \in CheckValues
    /\ gHasAvx = TRUE
    /\ \E l \in Layouts : destData = l[1] /\ sourceData = l[2]
    /\ alignment \in { k \in FirstAlignment..LastAlignment : k % AvxBytes = 0 }
    /\ d = Align(destData, alignment)
    /\ a = Align(sourceData, alignment)
    /\ b = IF prog = "copy" THEN 0
           ELSE Align(sourceData + FloatBytes * SecondOperand, alignment)
    /\ mem = << >>
    /\ memOnce = << >>
    /\ calls = 0
    /\ pc = "op"
    /\ col = 0
    /\ i = 0
    /\ markup = "none"
    /\ header = << >>
    /\ rows = << >>
    /\ row = << >>
    /\ emitted = NoValue
    /\ diag = << "none" >>
    /\ exitCode = -1
    /\ acc = [ dbuf |-> "dest", ranges |-> {} ]
    /\ p = 0
    /\ aligned_to = 0
    /\ address = 0

\* f(d, s) or f(d, a, b)
OpCall ==
    /\ pc = "op"
    /\ calls < 2
    /\ LET M == Call(op, Machine(mem), d, a, b, gNumFloats)
       IN  /\ mem' = M.mem
           /\ acc' = [ dbuf |-> "dest", ranges |-> M.acc ]
           /\ memOnce' = IF calls = 0 THEN M.mem ELSE memOnce
    /\ calls' = calls + 1
    /\ UNCHANGED << prog, gNumFloats, gTotalFloats, gCheckValue, gHasAvx, destData,
                    sourceData, pc, alignment, col, d, a, b, i, markup, header, rows,
                    row, emitted, diag, exitCode, p, aligned_to, address, op >>

OpNext == OpCall

OpSpec == OpInit /\ [][OpNext]_vars

(***************************************************************************)
(* The claims.                                                             *)
(***************************************************************************)
NullOperations == { "NullCopy", "NullMult" }

\* the Run call in progress was instantiated with a real operation
RealRun == pc = "loop" /\ Cur.f \notin NullOperations

Ceil(t, n) == (t + n - 1) \div n

C1_Bounds ==
    pc \in { "align", "aligned" } =>
        /\ address >= p
        /\ address - p < 256
        /\ \A x \in p..(address - 1) : x % 256 # aligned_to
        /\ pc = "aligned" => (address % 256 = aligned_to /\ address = Align(p, aligned_to))
        /\ pc = "align" => ENABLED AlignNext

\* C1 (AlignSpec): at every point of align's loop the address has not moved
\* backward, has advanced by less than 256 and has passed no address whose
\* residue modulo 256 is the target; when align returns, the address has the
\* target residue, so it is the lowest such address >= p; and the loop
\* terminates: until it returns it can take a step, and every step either
\* returns or advances the address by one, which the bound allows fewer than
\* 256 times.
C1_AlignLowestAddress ==
    /\ []C1_Bounds
    /\ [][pc = "align" => \/ (pc' = "aligned" /\ address' = address)
                          \/ (pc' = "align" /\ address' = address + 1)]_vars

\* C1 witness: align has returned for a sweep offset after the largest advance
C1_Witness ==
    /\ pc = "aligned"
    /\ aligned_to \in 4..64
    /\ address - p = 255

Inapplicable(name, k) ==
    \/ name \in { "Aligned Sse", "Aligned Sse Stream" } /\ k % 16 # 0
    \/ name \in { "Aligned Avx", "Aligned Avx Stream" } /\ (k % 32 # 0 \/ ~gHasAvx)
    \/ name = "Unaligned Avx" /\ ~gHasAvx

\* C3: a value written for a column that is inapplicable at its offset was
\* written without invoking a real operation and without running the
\* verifier, and is the placeholder 0.
C3_InapplicableIsPlaceholder ==
    (emitted # NoValue /\ Inapplicable(emitted.name, emitted.alignment))
        => /\ emitted.f \in NullOperations
           /\ ~emitted.verified
           /\ emitted.val = 0

\* C4: every byte of the source vector is the byte it was constructed with,
\* so every element of the source equals check_value.
C4_SourceReadOnly ==
    \A x \in DOMAIN mem : InSource(x) => mem[x] = gCheckValue[((x - sourceData) % 4) + 1]

\* the elements of the logical region at which destination and expected value differ
C5_Mismatches ==
    { k \in 0..(gNumFloats - 1) :
        FloatNe(LoadFloat(mem, d + 4 * k), Expected(mem, a, b, k)) }

C5_First == CHOOSE k \in C5_Mismatches : \A j \in C5_Mismatches : k <= j

C5_Step ==
    /\ (pc = "loop" /\ ~(i < gTotalFloats)) =>
          IF C5_Mismatches # {}
          THEN /\ pc' = "exit"
               /\ exitCode' = 1
               /\ emitted = NoValue
               /\ emitted' = NoValue
               /\ row' = row
               /\ rows' = rows
               /\ diag' = << "Error in", Cur.name, LoadFloat(mem, d + 4 * C5_First),
                             Expected(mem, a, b, C5_First) >>
          ELSE /\ pc' \in { "col", "row" }
               /\ exitCode' = -1
               /\ row' = Append(row, Cur.name)
               /\ emitted'.verified
               /\ emitted'.name = Cur.name
    /\ (emitted' # emitted /\ emitted'.verified) =>
          (pc = "loop" /\ ~(i < gTotalFloats) /\ C5_Mismatches = {})

\* C5: a step taken once the repetitions are over exits with code 1, reporting
\* the values at the first differing element of dst[0..num_elements-1] and
\* writing nothing to the result sink, when some element differs, and
\* otherwise writes the run's timing sample; a verified timing sample is
\* written by no other step; and nothing runs after the exit.
C5_VerifyOrAbort ==
    /\ [](pc = "exit" => ~ENABLED Next)
    /\ [][C5_Step]_vars

\* C5 witness: the process has exited with code 1 on a verification failure
C5_Witness ==
    /\ pc = "exit"
    /\ exitCode = 1
    /\ diag[1] = "Error in"
    /\ C5_Mismatches # {}

\* C6: the process that has exited with total_elements < num_elements has
\* exit code 1, has printed the diagnostic, and has constructed no buffer and
\* written nothing to the result sink.
C6_ConfigErrorExitsOne ==
    (pc = "exit" /\ gTotalFloats < gNumFloats)
        => /\ exitCode = 1
           /\ diag[1] = "total-floats must be greater than num-floats"
           /\ destData = 0
           /\ sourceData = 0
           /\ markup = "none"
           /\ header = << >>
           /\ rows = << >>

\* the vector width of an operation's loop
Width(f) ==
    IF f \in { "UnalignedSseCopy", "AlignedSseCopy", "AlignedSseNonTemporalCopy",
               "UnalignedSseMult", "AlignedSseMult", "AlignedSseNonTemporalMult" }
    THEN 4
    ELSE IF f \in { "UnalignedAvxCopy", "AlignedAvxCopy", "AlignedAvxNonTemporalCopy",
                    "UnalignedAvxMult", "AlignedAvxMult", "AlignedAvxNonTemporalMult" }
    THEN 8
    ELSE 1

\* num_elements rounded up to a multiple of the width
Covered(f, n) == Ceil(n, Width(f)) * Width(f)

\* the expected element over constant-filled sources
C7_Expected == IF prog = "copy" THEN gCheckValue ELSE FloatMul(gCheckValue, gCheckValue)

\* C7 as written (OpSpec): after a call every element below num_elements holds
\* the expected value, no byte at or beyond element num_elements has been
\* written, and a second call leaves the memory as the first left it.
C7_ExactlyNumElements ==
    (pc = "op" /\ calls >= 1)
        => /\ \A k \in 0..(gNumFloats - 1) : LoadFloat(mem, d + 4 * k) = C7_Expected
           /\ \A x \in DOMAIN mem : x >= d /\ x < d + 4 * gNumFloats
           /\ calls = 2 => mem = memOnce

\* C7 amended (OpSpec): after a call the bytes written are exactly those of
\* the elements below num_elements rounded up to a multiple of the variant's
\* vector width (1, 4 or 8), each of these elements holds the expected value,
\* and a second call leaves the memory as the first left it.
C7_CoveredElements ==
    (pc = "op" /\ calls >= 1)
        => /\ DOMAIN mem = d..(d + 4 * Covered(op, gNumFloats) - 1)
           /\ \A k \in 0..(Covered(op, gNumFloats) - 1) :
                  LoadFloat(mem, d + 4 * k) = C7_Expected
           /\ calls = 2 => mem = memOnce

\* C7 witness: a wide variant has been called twice on a working set that is
\* no multiple of its width and has written beyond it
C7_Witness ==
    /\ pc = "op"
    /\ calls = 2
    /\ op = "AlignedAvxCopy"
    /\ gNumFloats = 9
    /\ (d + 4 * 15) \in DOMAIN mem

\* C8: the header lists 9 (copy) or 7 (multiply) operation names after the
\* label; the row labels written are 4, 5, ... in ascending order; the values
\* of a row are written in the header's order; a row that is over has one
\* value per header operation; and a completed sweep has written the rows of
\* the offsets 4..64.
C8_RowsFollowHeader ==
    /\ markup # "none" =>
          /\ Len(header) = (IF prog = "copy" THEN 10 ELSE 8)
          /\ header[1] = "Alignment"
          /\ Cardinality({ header[k] : k \in 1..Len(header) }) = Len(header)
    /\ rows = [ k \in 1..Len(rows) |-> 3 + k ]
    /\ Len(rows) <= 61
    /\ Len(row) < Len(header) \/ (row = << >> /\ header = << >>)
    /\ \A k \in 1..Len(row) : row[k] = header[k + 1]
    /\ (pc = "row" /\ rows # << >>) => Len(row) = Len(header) - 1
    /\ (pc = "exit" /\ markup = "closed") =>
          (exitCode = 0 /\ Len(rows) = 61 /\ Len(row) = Len(header) - 1)

\* C8 witness: a completed sweep
C8_Witness ==
    /\ pc = "exit"
    /\ exitCode = 0
    /\ markup = "closed"
    /\ Len(rows) = 61
    /\ gNumFloats >= 1

\* C9: every range the last step read or wrote lies inside the vector its
\* pointer was derived from: d in the vector main passed as d, a and b in source.
C9_AccessesInBounds ==
    \A r \in acc.ranges :
        IF r.ptr = "d" /\ acc.dbuf = "dest"
        THEN destData # 0 /\ r.lo >= destData /\ r.hi <= destData + DestBytes
        ELSE sourceData # 0 /\ r.lo >= sourceData /\ r.hi <= sourceData + SourceBytes

\* C9 witness: a wide store of 8 floats through d after the largest advance of
\* align, for a working set that is no multiple of 8
C9_Witness ==
    /\ pc = "loop"
    /\ gNumFloats % 8 # 0
    /\ \E r \in acc.ranges :
          r.ptr = "d" /\ acc.dbuf = "dest" /\ r.lo - destData = 255 /\ r.hi - r.lo = 32

\* C10 (FairSpec): a launched process eventually stops.
C10_SweepTerminates == <>(pc \in { "exit", "fault" })

====
